---- MODULE Spec2Model ----
(***************************************************************************)
(* fast.Measure (src/fast/api.go): the dispatch loop of the main goroutine, *)
(* the fetch goroutines it starts through errgroup.Group.Go, the weighted   *)
(* semaphore, the timeout context and the clock.                            *)
(***************************************************************************)
EXTENDS Integers, Sequences, FiniteSets, TLC

\* ------------------------------------------------------------------ bounds
\* Capacity of the semaphore.  The source sets 8 (api.go:21); the model runs
\* with a small capacity and every formula is stated in terms of this name.
maxConcurrentRequests == 2
\* Length of the measurement window in clock ticks.  The source sets 10 s
\* (api.go:22); one tick of the model is an arbitrary fraction of it.
maxTime == 2
\* Cap on the number of goroutines one run starts (the loop is unbounded):
\* enough to fill the semaphore and start one more.
MaxLaunch == maxConcurrentRequests + 1
\* The clock stops one tick past the deadline.
MaxClock == maxTime + 1
\* Largest byte count one doMeasure call returns.
MaxBytes == 1
\* Largest number of "url" matches in the API response.
MaxPool == 2

VARIABLES
    pc,         \* position of the main goroutine in Measure
    panic,      \* "none", or the message of the run-time panic that ended the process
    token,      \* findURLs' local token; NoToken outside findURLs
    urls,       \* the endpoint pool returned by findURLs
    cur,        \* semaphore.Weighted.cur: slots held
    now,        \* the clock, in ticks since line 39
    start,      \* time.Now() of line 42
    idx,        \* var idx int32
    sumBytes,   \* var sumBytes int64
    firstErr,   \* errgroup.Group.err, set once
    unit,       \* the goroutines started by wg.Go, in launch order
    launched,   \* number of goroutines started
    selected,   \* number of goroutines that have executed line 55
    sumReturned,    \* sum of the byte counts doMeasure has returned
    bytesSeen,  \* the distinct byte counts doMeasure has returned
    sawUnexpected,  \* some goroutine has returned an unexpected error to the group
    blockedExpired, \* Acquire returned the deadline error with every slot held
    lateLaunches,   \* goroutines started while ctx.Done() was closed
    ret         \* what Measure returned

vars == <<pc, panic, token, urls, cur, now, start, idx, sumBytes,
          firstErr, unit, launched, selected, sumReturned, bytesSeen,
          sawUnexpected, blockedExpired, lateLaunches, ret>>

\* ------------------------------------------------------------------ errors
\* An error value is its Unwrap chain, outermost first; nil is the empty chain.
Nil == << >>
DeadlineExceeded == <<"context.DeadlineExceeded">>
ConnReset == <<"net.OpError">>
URLError(e) == <<"url.Error">> \o e

\* errors.Is: some error of the chain is the target.
ErrorsIs(err, target) ==
    \E i \in 1..Len(err) : SubSeq(err, i, Len(err)) = target

\* Every non-nil error taken as unexpected.
isUnexpectedError_AnyError(err) == err # Nil

isUnexpectedError(err) == err # Nil /\ ~ErrorsIs(err, DeadlineExceeded)

\* What doMeasure can return: NewRequestWithContext or Do fail with 0 bytes;
\* io.Copy returns the bytes written with or without an error.  The deadline
\* errors need the context to be done.
DoMeasureResults(done) ==
    {<<0, URLError(ConnReset)>>}
    \cup (IF done THEN {<<0, URLError(DeadlineExceeded)>>} ELSE {})
    \cup {<<n, Nil>> : n \in 0..MaxBytes}
    \cup {<<n, ConnReset>> : n \in 0..MaxBytes}
    \cup (IF done THEN {<<n, DeadlineExceeded>> : n \in 0..MaxBytes} ELSE {})

\* ------------------------------------------------------------------ state
Units == 1..MaxLaunch

\* A goroutine: its position, whether it was started holding a slot, and its
\* locals url and err while they are read.
IdleUnit == [pc |-> "idle", slot |-> FALSE, url |-> -1, err |-> Nil]

NoToken == <<"<unset>">>

NoRet == [set |-> FALSE, num |-> 0, den |-> 0, err |-> Nil]

Init ==
    /\ pc = "getToken"
    /\ panic = "none"
    /\ token = NoToken
    /\ urls = << >>
    /\ cur = 0
    /\ now = 0
    /\ start = 0
    /\ idx = 0
    /\ sumBytes = 0
    /\ firstErr = Nil
    /\ unit = [i \in Units |-> IdleUnit]
    /\ launched = 0
    /\ selected = 0
    /\ sumReturned = 0
    /\ bytesSeen = {}
    /\ sawUnexpected = FALSE
    /\ blockedExpired = FALSE
    /\ lateLaunches = 0
    /\ ret = NoRet

\* ctx.Done() is closed: the timer of context.WithTimeout(.., maxTime) has fired.
ctxDone == now >= maxTime

Running == panic = "none" /\ pc # "returned"

\* ------------------------------------------------------------------ URL source
\* tokenRE match -> token: tokens[0][7 : len(tokens[0])-1]
TokenOf(match) == SubSeq(match, 8, Len(match) - 1)

TokenPrefix == <<"t", "o", "k", "e", "n", ":", "\"">>

\* The matches tokenRE can find in a script body: none, token:"" or token:"ab".
TokenMatches == {<< >>, TokenPrefix \o <<"\"">>, TokenPrefix \o <<"a", "b", "\"">>}

GetToken ==
    /\ Running
    /\ pc = "getToken"
    /\ \E hasScript \in BOOLEAN, m \in TokenMatches :
        IF ~hasScript
        THEN /\ panic' = "index out of range"
             /\ UNCHANGED <<pc, token>>
        ELSE /\ token' = (IF Len(m) > 0 THEN TokenOf(m) ELSE << >>)
             /\ pc' = "findURLs"
             /\ UNCHANGED panic
    /\ UNCHANGED <<urls, cur, now, start, idx, sumBytes, firstErr, unit,
                   launched, selected, sumReturned, bytesSeen, sawUnexpected,
                   blockedExpired, lateLaunches, ret>>

FindURLs ==
    /\ Running
    /\ pc = "findURLs"
    /\ \E n \in 0..MaxPool : urls' = [k \in 1..n |-> k - 1]
    /\ token' = NoToken
    /\ pc' = "newCtx"
    /\ UNCHANGED <<panic, cur, now, start, idx, sumBytes, firstErr, unit,
                   launched, selected, sumReturned, bytesSeen, sawUnexpected,
                   blockedExpired, lateLaunches, ret>>

\* ------------------------------------------------------------------ Measure
\* Lines 37-42: the semaphore, the timeout context and the start timestamp.
\* The clock of the model starts here.
NewCtx ==
    /\ Running
    /\ pc = "newCtx"
    /\ cur' = 0
    /\ now' = 0
    /\ start' = 0
    /\ pc' = "select"
    /\ UNCHANGED <<panic, token, urls, idx, sumBytes, firstErr, unit,
                   launched, selected, sumReturned, bytesSeen, sawUnexpected,
                   blockedExpired, lateLaunches, ret>>

\* Lines 46-48: case <-ctx.Done().
SelectDone ==
    /\ Running
    /\ pc = "select"
    /\ ctxDone
    /\ pc' = "wait"
    /\ UNCHANGED <<panic, token, urls, cur, now, start, idx, sumBytes,
                   firstErr, unit, launched, selected, sumReturned,
                   bytesSeen, sawUnexpected, blockedExpired, lateLaunches, ret>>

\* The default branch taken without looking at ctx.Done().
SelectDefault_NoCheck ==
    /\ Running
    /\ pc = "select"
    /\ launched < MaxLaunch
    /\ pc' = "acquire"
    /\ UNCHANGED <<panic, token, urls, cur, now, start, idx, sumBytes,
                   firstErr, unit, launched, selected, sumReturned,
                   bytesSeen, sawUnexpected, blockedExpired, lateLaunches,
                   ret>>

\* Line 49: default.
SelectDefault ==
    /\ Running
    /\ pc = "select"
    /\ ~ctxDone
    /\ launched < MaxLaunch
    /\ pc' = "acquire"
    /\ UNCHANGED <<panic, token, urls, cur, now, start, idx, sumBytes,
                   firstErr, unit, launched, selected, sumReturned,
                   bytesSeen, sawUnexpected, blockedExpired, lateLaunches, ret>>

\* Lines 53-60: wg.Go starts the next goroutine.
Go(holdsSlot) ==
    /\ launched' = launched + 1
    /\ lateLaunches' = IF ctxDone THEN lateLaunches + 1 ELSE lateLaunches
    /\ unit' = [unit EXCEPT ![launched + 1] =
                    [IdleUnit EXCEPT !.pc = "sel", !.slot = holdsSlot]]

\* The error with whatever was accumulated.
ErrorReturn_Partial(err) ==
    [set |-> TRUE, num |-> sumBytes, den |-> 1, err |-> err]

\* Lines 51 and 65: return 0, err.
ErrorReturn(err) == [set |-> TRUE, num |-> 0, den |-> 1, err |-> err]

\* Lines 50-52 after sem.Acquire returned err, then lines 53-60.
AfterAcquire(err, holdsSlot) ==
    IF isUnexpectedError(err)
    THEN /\ ret' = ErrorReturn(err)
         /\ pc' = "returned"
         /\ UNCHANGED <<unit, launched, lateLaunches>>
    ELSE /\ Go(holdsSlot)
         /\ pc' = "select"
         /\ UNCHANGED ret

\* sem.Acquire(ctx, 1) takes a slot and returns nil.
AcquireOk ==
    /\ Running
    /\ pc = "acquire"
    /\ cur < maxConcurrentRequests
    /\ cur' = cur + 1
    /\ AfterAcquire(Nil, TRUE)
    /\ UNCHANGED <<panic, token, urls, now, start, idx, sumBytes, firstErr,
                   selected, sumReturned, bytesSeen, sawUnexpected,
                   blockedExpired>>

\* sem.Acquire(ctx, 1) returns ctx.Err() and leaves the semaphore unchanged.
AcquireFail ==
    /\ Running
    /\ pc = "acquire"
    /\ ctxDone
    /\ blockedExpired' = (blockedExpired \/ cur = maxConcurrentRequests)
    /\ AfterAcquire(DeadlineExceeded, FALSE)
    /\ UNCHANGED <<panic, token, urls, cur, now, start, idx, sumBytes,
                   firstErr, selected, sumReturned, bytesSeen, sawUnexpected>>

\* The configured window in place of the measured time.
Since_Window(t) == maxTime

\* time.Since(t)
Since(t) == now - t

\* The wait returning without joining the goroutines.
AllDone_NoWait == TRUE

\* wg.Wait blocks until every goroutine started by wg.Go is done.
AllDone == \A i \in 1..launched : unit[i].pc = "done"

\* Lines 64-67.
Wait ==
    /\ Running
    /\ pc = "wait"
    /\ AllDone
    /\ ret' = IF isUnexpectedError(firstErr)
              THEN ErrorReturn(firstErr)
              ELSE [set |-> TRUE, num |-> sumBytes, den |-> Since(start), err |-> Nil]
    /\ pc' = "returned"
    /\ UNCHANGED <<panic, token, urls, cur, now, start, idx, sumBytes,
                   firstErr, unit, launched, selected, sumReturned,
                   bytesSeen, sawUnexpected, blockedExpired, lateLaunches>>

\* ------------------------------------------------------------------ goroutine
\* Line 55: url := urls[int(idx)%len(urls)], a panic for an empty pool.  idx
\* is read without synchronisation while other goroutines add to it (a data
\* race): the read observes the current value or one the counter held
\* earlier.
UnitSelect(i) ==
    /\ Running
    /\ unit[i].pc = "sel"
    /\ IF Len(urls) = 0
       THEN /\ panic' = "integer divide by zero"
            /\ UNCHANGED <<unit, selected>>
       ELSE /\ \E v \in 0..idx :
                unit' = [unit EXCEPT ![i].pc = "inc",
                                     ![i].url = urls[(v % Len(urls)) + 1]]
            /\ selected' = selected + 1
            /\ UNCHANGED panic
    /\ UNCHANGED <<pc, token, urls, cur, now, start, idx, sumBytes, firstErr,
                   launched, sumReturned, bytesSeen, sawUnexpected,
                   blockedExpired, lateLaunches, ret>>

\* A plain store in place of the add.
AddInt32_Store(old, delta) == delta

\* atomic.AddInt32(&idx, 1)
AddInt32(old, delta) == old + delta

\* Line 56: atomic.AddInt32(&idx, 1).
UnitInc(i) ==
    /\ Running
    /\ unit[i].pc = "inc"
    /\ idx' = AddInt32(idx, 1)
    /\ unit' = [unit EXCEPT ![i].pc = "fetch", ![i].url = -1]
    /\ UNCHANGED <<pc, panic, token, urls, cur, now, start, sumBytes,
                   firstErr, launched, selected, sumReturned, bytesSeen,
                   sawUnexpected, blockedExpired, lateLaunches, ret>>

\* A plain store in place of the add.
AddInt64_Store(old, delta) == delta

\* atomic.AddInt64(&sumBytes, bytes)
AddInt64(old, delta) == old + delta

\* Lines 57-58: bytes, err := doMeasure(ctx, url), then the atomic add.  No
\* goroutine reads sumBytes before wg.Wait has returned, so the add is taken
\* in the step in which doMeasure returns.
UnitFetch(i) ==
    /\ Running
    /\ unit[i].pc = "fetch"
    /\ \E r \in DoMeasureResults(ctxDone) :
        /\ unit' = [unit EXCEPT ![i].pc = "ret", ![i].err = r[2]]
        /\ sumReturned' = sumReturned + r[1]
        /\ bytesSeen' = bytesSeen \cup {r[1]}
        /\ sumBytes' = AddInt64(sumBytes, r[1])
    /\ UNCHANGED <<pc, panic, token, urls, cur, now, start, idx, firstErr,
                   launched, selected, sawUnexpected, blockedExpired, lateLaunches, ret>>

\* The last non-nil error kept in place of the first.
ErrOnce_Last(old, err) == IF err # Nil THEN err ELSE old

\* errgroup.Group.Go: if err := f(); err != nil { g.errOnce.Do(set g.err) }
ErrOnce(old, err) == IF err # Nil /\ old = Nil THEN err ELSE old

\* Lines 59 and 54: the function returns err and the deferred sem.Release(1)
\* runs, which panics when more is released than held; then errgroup keeps
\* the first non-nil error and marks the goroutine done.
UnitReturn(i) ==
    /\ Running
    /\ unit[i].pc = "ret"
    /\ IF cur - 1 < 0
       THEN /\ panic' = "semaphore: released more than held"
            /\ UNCHANGED <<cur, unit, firstErr, sawUnexpected>>
       ELSE /\ cur' = cur - 1
            /\ firstErr' = ErrOnce(firstErr, unit[i].err)
            /\ sawUnexpected' = (sawUnexpected \/ isUnexpectedError(unit[i].err))
            /\ unit' = [unit EXCEPT ![i].pc = "done", ![i].err = Nil]
            /\ UNCHANGED panic
    /\ UNCHANGED <<pc, token, urls, now, start, idx, sumBytes, launched,
                   selected, sumReturned, bytesSeen, blockedExpired, lateLaunches, ret>>

\* ------------------------------------------------------------------ time
\* The clock advances.  Once ctx.Done() is closed only time.Since of line 67
\* reads the clock, and a tick commutes with every other step: past the
\* deadline the clock is advanced where line 67 is about to read it.
Tick ==
    /\ Running
    /\ pc \notin {"getToken", "findURLs", "newCtx"}
    /\ now < MaxClock
    /\ ctxDone => (pc = "wait" /\ AllDone)
    /\ now' = now + 1
    /\ UNCHANGED <<pc, panic, token, urls, cur, start, idx, sumBytes,
                   firstErr, unit, launched, selected, sumReturned,
                   bytesSeen, sawUnexpected, blockedExpired, lateLaunches, ret>>

UnitStep ==
    \E i \in Units :
        \/ UnitSelect(i)
        \/ UnitInc(i)
        \/ UnitFetch(i)
        \/ UnitReturn(i)

Next ==
    \/ GetToken
    \/ FindURLs
    \/ NewCtx
    \/ SelectDone
    \/ SelectDefault
    \/ AcquireOk
    \/ AcquireFail
    \/ Wait
    \/ UnitStep
    \/ Tick

Spec == Init /\ [][Next]_vars

\* ------------------------------------------------------------------ claims
\* Goroutines started by wg.Go whose function has not returned yet.
InFlight ==
    Cardinality({i \in 1..launched : unit[i].pc \in {"sel", "inc", "fetch", "ret"}})

PoolKnown == pc \notin {"getToken", "findURLs"}

\* C1: at most maxConcurrentRequests fetch goroutines are in flight at any
\* moment of a Measure run over a non-empty pool.
C1_AtMostLimitInFlight ==
    Len(urls) > 0 => InFlight <= maxConcurrentRequests

\* C2: the n-th goroutine to select an endpoint (n counted from 0) is routed
\* to endpoint index n mod L.
C2_RoundRobin ==
    [][\A i \in Units :
          (unit[i].pc = "sel" /\ unit'[i].pc = "inc")
              => unit'[i].url = urls[(selected % Len(urls)) + 1]]_vars

\* C3: when some goroutine returned an unexpected error, Measure returns an
\* unexpected error and throughput 0.
C3_UnexpectedErrorReturned ==
    (pc = "returned" /\ sawUnexpected)
        => (isUnexpectedError(ret.err) /\ ret.num = 0)

\* C4: when the deadline elapses while the loop is blocked in Acquire with
\* every slot held (pool not empty), the run reaches no crash state and an
\* error is never returned.
C4_BlockedDeadlineEndsNormally ==
    (blockedExpired /\ Len(urls) > 0)
        => (panic = "none" /\ (pc = "returned" => ret.err = Nil))

\* C5: with an empty pool Measure starts no goroutine and reaches no
\* run-time panic.
C5_EmptyPoolFailsFast ==
    (PoolKnown /\ Len(urls) = 0) => (launched = 0 /\ panic = "none")

\* C6: when Measure returns a throughput with a nil error, every goroutine it
\* started has returned and the accumulator it divides is the exact sum of
\* the byte counts doMeasure returned.
C6_AccumulatorExact ==
    (pc = "returned" /\ ret.err = Nil)
        => (AllDone /\ sumBytes = sumReturned /\ ret.num = sumReturned)

\* C6 witness: two goroutines, one of them cut by the deadline after a
\* partial read, both contributing MaxBytes.
C6_Witness ==
    /\ pc = "returned"
    /\ ret.err = Nil
    /\ launched >= 2
    /\ firstErr = DeadlineExceeded
    /\ bytesSeen = {MaxBytes}
    /\ ret.num = launched * MaxBytes

\* C7: once a goroutine has returned an unexpected error, no further
\* goroutine is started.
C7_AbortImmediately == [][sawUnexpected => launched' = launched]_vars

\* C8: an error Measure returns is never a deadline error, and when no
\* goroutine returned an unexpected error Measure returns a nil error.
C8_DeadlineNeverSurfaced ==
    pc = "returned"
        => /\ ~ErrorsIs(ret.err, DeadlineExceeded)
           /\ (~sawUnexpected => ret.err = Nil)

\* C8 witness: the group's error is a wrapped deadline error and Measure
\* returned nil.
C8_Witness ==
    /\ pc = "returned"
    /\ firstErr = URLError(DeadlineExceeded)
    /\ ret.err = Nil

\* Every doMeasure call of the run returned N bytes and a nil error, and
\* fewer than maxConcurrentRequests calls were made.
C9_Case(N) ==
    /\ pc = "returned"
    /\ ret.err = Nil
    /\ firstErr = Nil
    /\ bytesSeen = {N}
    /\ launched < maxConcurrentRequests

\* num/den = a/b for positive den and b.
SameQuotient(num, den, a, b) == num * b = a * den

\* C9 as stated: the throughput returned equals (calls * N) / maxTime.
C9_ThroughputOverDeadline ==
    \A N \in 0..MaxBytes :
        C9_Case(N) => SameQuotient(ret.num, ret.den, launched * N, maxTime)

\* C9 as amended: the throughput is (calls * N) / E, where E is the time
\* from the start timestamp to the return of wg.Wait, taken after the
\* deadline has expired.
C9_ThroughputOverElapsed ==
    \A N \in 0..MaxBytes :
        C9_Case(N) => (ret.num = launched * N /\ ret.den = now - start /\ ctxDone)

\* C9 witness: the calls returned MaxBytes each and the wait ended after
\* the deadline.
C9_Witness ==
    /\ C9_Case(MaxBytes)
    /\ launched >= 1
    /\ ret.den > maxTime

\* C10: with a non-empty pool a run of Measure does not stop before it has
\* returned to its caller.
C10_StopsOnlyReturned ==
    (PoolKnown /\ Len(urls) > 0) => (pc = "returned" \/ ENABLED Next)

\* C11: an error is returned only with throughput 0, and a non-zero
\* throughput only with a nil error.
C11_NoPartialResult ==
    pc = "returned"
        => /\ (ret.err # Nil => ret.num = 0)
           /\ (ret.num # 0 => ret.err = Nil)

\* C11 witness: Measure returned an error after bytes had been accumulated.
C11_Witness ==
    /\ pc = "returned"
    /\ ret.err # Nil
    /\ sumBytes > 0

\* C12: every goroutine was started holding a slot the loop acquired for it.
C12_LaunchedHoldSlot == \A i \in 1..launched : unit[i].slot

\* C13 as stated: no goroutine is started while ctx.Done() is closed.
C13_NoLaunchAfterDeadline == lateLaunches = 0

\* C13 as amended: at most one goroutine, that of the iteration whose
\* deadline check preceded the expiry, is started while ctx.Done() is
\* closed, and none once the loop has left for wg.Wait.
C13_OneLateLaunchAtMost ==
    /\ lateLaunches <= 1
    /\ (lateLaunches = 1 => pc # "acquire")

\* C13 witness: a goroutine was started after the deadline with a slot
\* acquired for it, and the run went on to return.
C13_Witness ==
    /\ lateLaunches = 1
    /\ C12_LaunchedHoldSlot
    /\ pc = "returned"

\* C14: when Measure returns a throughput with a nil error, every goroutine
\* it started has added its bytes, released its slot and finished, and the
\* elapsed time is that of the clock at the return, after the last of them.
C14_WaitsForAll ==
    (pc = "returned" /\ ret.err = Nil)
        => /\ \A i \in 1..launched : unit[i].pc = "done"
           /\ cur = 0
           /\ idx = launched
           /\ ret.den = now - start

\* C14 witness: Measure returned bytes after every goroutine the cap allows
\* had been started and had finished.
C14_Witness ==
    /\ pc = "returned"
    /\ ret.err = Nil
    /\ launched = MaxLaunch
    /\ ret.num > 0

\* Goroutines that have executed line 56.
Incremented ==
    Cardinality({i \in 1..launched : unit[i].pc \in {"fetch", "ret", "done"}})

C16_ExtractionFailureIsError ==
    /\ panic # "index out of range"
    /\ (pc = "findURLs" => token # << >>)
    /\ (Len(urls) = 0 => pc \notin {"select", "acquire", "wait"})

\* C17: the slots held stay within 0..maxConcurrentRequests and Release
\* never finds more released than held.
C17_ReleasesWithinAcquires ==
    /\ cur \in 0..maxConcurrentRequests
    /\ panic # "semaphore: released more than held"

\* C18: the group's error, once set, is not replaced by the error of a
\* goroutine finishing later, and Measure returns it exactly when it is an
\* unexpected one.
C18_FirstErrorDecides ==
    /\ [](pc = "returned"
            => /\ (ret.err # Nil <=> isUnexpectedError(firstErr))
               /\ (ret.err # Nil => ret.err = firstErr))
    /\ [][firstErr # Nil => firstErr' = firstErr]_vars

\* C18 witness: a deadline error came first, an unexpected error finished
\* later, and Measure returned nil.
C18_Witness ==
    /\ pc = "returned"
    /\ ErrorsIs(firstErr, DeadlineExceeded)
    /\ sawUnexpected
    /\ ret.err = Nil
    /\ ret.num > 0

====
